---- MODULE Spec2Model ----
(***************************************************************************)
(* Model of the markdown-to-presentation engine of TranSuDeck              *)
(* (app/core/pptx_generator.py, the generation endpoint of app/main.py,    *)
(* app/utils/helpers.py) and of its configuration endpoint (set_config of  *)
(* app/main.py, app/config.py).  Strings are sequences of one-character    *)
(* strings; regular expressions are modelled by what they match.           *)
(***************************************************************************)
EXTENDS Integers, Sequences, FiniteSets, TLC

VARIABLES
    \* MarkdownParser.parse_line
    pl_line, pl_result, pl_pc,
    \* MarkdownParser.extract_formatting_segments
    text, input_items, remaining_text, segments, seg_pc,
    \* PPTXGenerator._parse_slide_content
    content, lines, idx, title, remaining_lines, is_title_slide,
    h1_found, h2_found, sp_result, sp_pc,
    \* PPTXGenerator._set_content
    sc_content, sc_lines, sc_idx, paragraphs, first_paragraph, sc_pc,
    \* generate_pptx_endpoint and PPTXGenerator.create_presentation
    req_slides, slides, gen_idx, prs_slides, saved, cp_result, response, gen_pc,
    \* parse_markdown_to_slides
    markdown_text, slide_contents, md_idx, md_slides, md_pc,
    \* set_config: the .env file, the settings, the two services, the calls
    env_file, settings, translator, summarizer, cfg_calls

lineVars == <<pl_line, pl_result, pl_pc>>
segVars == <<text, input_items, remaining_text, segments, seg_pc>>
splitVars == <<content, lines, idx, title, remaining_lines, is_title_slide,
               h1_found, h2_found, sp_result, sp_pc>>
renderVars == <<sc_content, sc_lines, sc_idx, paragraphs, first_paragraph, sc_pc>>
genVars == <<req_slides, slides, gen_idx, prs_slides, saved, cp_result,
             response, gen_pc>>
mdVars == <<markdown_text, slide_contents, md_idx, md_slides, md_pc>>
cfgVars == <<env_file, settings, translator, summarizer, cfg_calls>>
vars == <<lineVars, segVars, splitVars, renderVars, genVars, mdVars, cfgVars>>

(***************************************************************************)
(* Bounds of the explored inputs.                                          *)
(***************************************************************************)
MaxIndent == 3
MaxHashes == 7
MaxDigits == 2
MaxItems == 3
MaxLines == 3
MaxHashLevel == 3

(***************************************************************************)
(* Python string primitives.                                               *)
(***************************************************************************)
Whitespace == {" ", "\t", "\n"}
Digits == {"0", "1", "2", "3", "4", "5", "6", "7", "8", "9"}
NL == "\n"

Drop(s, n) == SubSeq(s, n + 1, Len(s))

RECURSIVE lstrip(_)
lstrip(s) ==
    IF s # <<>> /\ Head(s) \in Whitespace THEN lstrip(Tail(s)) ELSE s

RECURSIVE rstrip(_)
rstrip(s) ==
    IF s # <<>> /\ s[Len(s)] \in Whitespace
    THEN rstrip(SubSeq(s, 1, Len(s) - 1))
    ELSE s

strip(s) == rstrip(lstrip(s))

startswith(s, p) == Len(s) >= Len(p) /\ SubSeq(s, 1, Len(p)) = p

\* length of the run of characters of set cs that starts at index i of s
RECURSIVE RunLen(_, _, _)
RunLen(s, i, cs) ==
    IF i <= Len(s) /\ s[i] \in cs THEN 1 + RunLen(s, i + 1, cs) ELSE 0

DigitVal(c) ==
    CASE c = "0" -> 0 [] c = "1" -> 1 [] c = "2" -> 2 [] c = "3" -> 3
      [] c = "4" -> 4 [] c = "5" -> 5 [] c = "6" -> 6 [] c = "7" -> 7
      [] c = "8" -> 8 [] c = "9" -> 9

\* int() of a non-empty string of decimal digits
RECURSIVE int_of(_)
int_of(ds) ==
    IF ds = <<>> THEN 0
    ELSE int_of(SubSeq(ds, 1, Len(ds) - 1)) * 10 + DigitVal(ds[Len(ds)])

\* Python's None in format_info["number"]
None == -1

(***************************************************************************)
(* MarkdownParser.parse_line                                               *)
(***************************************************************************)
NoMatch == [ok |-> FALSE]

\* the tail "\s+(.+)$" of the three line patterns, applied after a marker of
\* m characters: \s+ is greedy and gives one character back when nothing
\* would be left for (.+)
marker_tail(line, m) ==
    LET w == RunLen(line, m + 1, Whitespace)
        rest == Drop(line, m + w)
    IN  IF w = 0 THEN NoMatch
        ELSE IF rest # <<>> THEN [ok |-> TRUE, text |-> rest]
        ELSE IF w >= 2 THEN [ok |-> TRUE, text |-> <<line[Len(line)]>>]
        ELSE NoMatch

\* the same pattern with the quantifier #{1,7}
heading_match_upto7(line) ==
    LET h == RunLen(line, 1, {"#"})
        t == marker_tail(line, h)
    IN  IF h >= 1 /\ h <= 7 /\ t.ok
        THEN [ok |-> TRUE, level |-> h, text |-> t.text]
        ELSE NoMatch

\* re.match(r"^(#{1,6})\s+(.+)$", line)
heading_match(line) ==
    LET h == RunLen(line, 1, {"#"})
        t == marker_tail(line, h)
    IN  IF h >= 1 /\ h <= 6 /\ t.ok
        THEN [ok |-> TRUE, level |-> h, text |-> t.text]
        ELSE NoMatch

\* re.match(r"^-\s+(.+)$", line)
bullet_match(line) ==
    IF line # <<>> /\ line[1] = "-" THEN marker_tail(line, 1) ELSE NoMatch

\* re.match(r"^(\d+)\.\s+(.+)$", line)
numbered_match(line) ==
    LET d == RunLen(line, 1, Digits)
        t == marker_tail(line, d + 1)
    IN  IF d >= 1 /\ d + 1 <= Len(line) /\ line[d + 1] = "." /\ t.ok
        THEN [ok |-> TRUE, digits |-> SubSeq(line, 1, d), text |-> t.text]
        ELSE NoMatch

\* the assignment of format_info["number"] left out
numbered_number_unset(m) == None

\* format_info["number"] = int(numbered_match.group(1))
numbered_number(m) == int_of(m.digits)

default_format_info ==
    [bold |-> FALSE, italic |-> FALSE, underline |-> FALSE,
     is_heading |-> FALSE, heading_level |-> 0, is_bullet |-> FALSE,
     is_numbered |-> FALSE, number |-> None]

\* the empty dict returned for an empty line reads as the defaults through
\* format_info.get(key, default)
parse_line(line) ==
    IF line = <<>>
    THEN [text |-> <<>>, indent_level |-> 0, format_info |-> default_format_info]
    ELSE
      LET ws == RunLen(line, 1, Whitespace)
          indent_level == IF ws > 0 THEN ws \div 2 ELSE 0
          l == IF ws > 0 THEN lstrip(line) ELSE line
          hm == heading_match(l)
          bm == bullet_match(l)
          nm == numbered_match(l)
      IN  IF hm.ok
          THEN [text |-> hm.text, indent_level |-> indent_level,
                format_info |-> [default_format_info EXCEPT
                    !.is_heading = TRUE, !.heading_level = hm.level]]
          ELSE IF bm.ok
          THEN [text |-> bm.text, indent_level |-> indent_level,
                format_info |-> [default_format_info EXCEPT !.is_bullet = TRUE]]
          ELSE IF nm.ok
          THEN [text |-> nm.text, indent_level |-> indent_level,
                format_info |-> [default_format_info EXCEPT
                    !.is_numbered = TRUE, !.number = numbered_number(nm)]]
          ELSE [text |-> l, indent_level |-> indent_level,
                format_info |-> default_format_info]

(***************************************************************************)
(* Input lines of parse_line: indentation, marker, separator, text.        *)
(***************************************************************************)
RECURSIVE Repeat(_, _)
Repeat(c, n) == IF n = 0 THEN <<>> ELSE <<c>> \o Repeat(c, n - 1)

SeqsUpTo(S, lo, hi) == UNION {[1..n -> S] : n \in lo..hi}

LineIndents == {Repeat(" ", n) : n \in 0..MaxIndent} \cup {<<"\t">>}
LineDigitStrings == SeqsUpTo({"0", "1", "2"}, 1, MaxDigits)
LineMarkers ==
    {<<>>, <<"-">>, <<"*">>}
      \cup {Repeat("#", k) : k \in 1..MaxHashes}
      \cup {ds \o <<".">> : ds \in LineDigitStrings}
LineSeparators == {<<>>, <<" ">>, <<"\t">>, <<" ", " ">>}
LineTexts ==
    {<<>>, <<"a">>, <<"a", " ">>, <<"-", " ", "a">>, <<"1", ".", " ", "a">>}
LineInputs ==
    {i \o m \o s \o t :
        i \in LineIndents, m \in LineMarkers, s \in LineSeparators, t \in LineTexts}

NoResult == [text |-> <<>>, indent_level |-> 0, format_info |-> default_format_info]

LineIdle == pl_line = <<>> /\ pl_result = NoResult /\ pl_pc = "idle"
SegIdle ==
    /\ text = <<>> /\ input_items = <<>> /\ remaining_text = <<>>
    /\ segments = <<>> /\ seg_pc = "idle"

LineStart == pl_line \in LineInputs /\ pl_result = NoResult /\ pl_pc = "call"

ParseLine ==
    /\ pl_pc = "call"
    /\ pl_result' = parse_line(pl_line)
    /\ pl_pc' = "done"
    /\ UNCHANGED <<pl_line, segVars, splitVars,
                   renderVars, genVars, mdVars, cfgVars>>

(***************************************************************************)
(* MarkdownParser.extract_formatting_segments                              *)
(***************************************************************************)
IsAt(s, i, pat) ==
    /\ i >= 1
    /\ i + Len(pat) - 1 <= Len(s)
    /\ SubSeq(s, i, i + Len(pat) - 1) = pat

MinOf(S) == CHOOSE x \in S : \A y \in S : x <= y

\* positions where close can end a span opened by open at p: (.+?) takes at
\* least one character
ClosesAfter(s, p, open, close) ==
    {q \in (p + Len(open) + 1)..Len(s) : IsAt(s, q, close)}

\* re.match(r"^(.*?)OPEN(.+?)CLOSE", s): the lazy prefix stops at the first
\* position where OPEN stands and a CLOSE follows a non-empty inner text; the
\* lazy inner text stops at the first such CLOSE
delimited_match(s, open, close) ==
    LET starts == {p \in 1..Len(s) :
                      IsAt(s, p, open) /\ ClosesAfter(s, p, open, close) # {}}
    IN  IF starts = {} THEN NoMatch
        ELSE LET p == MinOf(starts)
                 q == MinOf(ClosesAfter(s, p, open, close))
             IN  [ok |-> TRUE, start |-> p,
                  pre |-> SubSeq(s, 1, p - 1),
                  inner |-> SubSeq(s, p + Len(open), q - 1),
                  end |-> q + Len(close) - 1]

\* re.match(r"^(.*?)(D(.+?)D|E(.+?)E)", s): both alternatives are tried at
\* each prefix length, D first
alternation_match(s, d, e) ==
    LET md == delimited_match(s, d, d)
        me == delimited_match(s, e, e)
    IN  IF md.ok /\ me.ok THEN (IF md.start <= me.start THEN md ELSE me)
        ELSE IF md.ok THEN md
        ELSE me

\* (?<!c)c(?!c) at index i
LoneAt(s, i, c) ==
    /\ i >= 1 /\ i <= Len(s) /\ s[i] = c
    /\ (i = 1 \/ s[i - 1] # c)
    /\ (i = Len(s) \/ s[i + 1] # c)

LoneClosesAfter(s, p, c) == {q \in (p + 2)..Len(s) : LoneAt(s, q, c)}

\* re.match(r"^(.*?)(?<!c)c(?!c)(.+?)(?<!c)c(?!c)", s)
lone_match(s, c) ==
    LET starts == {p \in 1..Len(s) :
                      LoneAt(s, p, c) /\ LoneClosesAfter(s, p, c) # {}}
    IN  IF starts = {} THEN NoMatch
        ELSE LET p == MinOf(starts)
                 q == MinOf(LoneClosesAfter(s, p, c))
             IN  [ok |-> TRUE, start |-> p,
                  pre |-> SubSeq(s, 1, p - 1),
                  inner |-> SubSeq(s, p + 1, q - 1),
                  end |-> q]

bold_italic_match(s) ==
    alternation_match(s, <<"*", "*", "*">>, <<"_", "_", "_">>)

bold_match(s) == alternation_match(s, <<"*", "*">>, <<"_", "_">>)

\* the underscore pattern is tried only when the asterisk pattern fails
italic_match(s) ==
    LET ms == lone_match(s, "*")
    IN  IF ms.ok THEN ms ELSE lone_match(s, "_")

underline_match(s) ==
    delimited_match(s, <<"<", "u", ">">>, <<"<", "/", "u", ">">>)

Segment(t, b, i, u) == [text |-> t, bold |-> b, italic |-> i, underline |-> u]

\* the prefix appended without the test of match.group(1)
emit_match_always_prefix(segs, pre, inner, b, i, u) ==
    segs \o <<Segment(pre, FALSE, FALSE, FALSE), Segment(inner, b, i, u)>>

\* the matched text appended without its emphasis flags
emit_match_no_flags(segs, pre, inner, b, i, u) ==
    segs \o (IF pre # <<>> THEN <<Segment(pre, FALSE, FALSE, FALSE)>> ELSE <<>>)
         \o <<Segment(inner, FALSE, FALSE, FALSE)>>

\* if match.group(1): segments.append((match.group(1), False, False, False))
\* segments.append((formatted_text, bold, italic, underline))
emit_match(segs, pre, inner, b, i, u) ==
    segs \o (IF pre # <<>> THEN <<Segment(pre, FALSE, FALSE, FALSE)>> ELSE <<>>)
         \o <<Segment(inner, b, i, u)>>

\* which branch one iteration of the while loop takes on the remaining text
seg_branch(rem) ==
    IF bold_italic_match(rem).ok THEN "bold_italic"
    ELSE IF bold_match(rem).ok THEN "bold"
    ELSE IF italic_match(rem).ok THEN "italic"
    ELSE IF underline_match(rem).ok THEN "underline"
    ELSE "plain"

\* the match of the branch taken
seg_match(rem, br) ==
    CASE br = "bold_italic" -> bold_italic_match(rem)
      [] br = "bold" -> bold_match(rem)
      [] br = "italic" -> italic_match(rem)
      [] br = "underline" -> underline_match(rem)
      [] OTHER -> NoMatch

\* the remaining text left as it was after a match
seg_apply_no_consume(rem, segs, br, m) ==
    [remaining_text |-> rem,
     segments |-> Append(segs, Segment(rem, FALSE, FALSE, br # "plain")),
     stop |-> br = "plain"]

\* the body of the branch br, m its match
seg_apply(rem, segs, br, m) ==
    IF br = "plain"
    THEN [remaining_text |-> rem,
          segments |-> Append(segs, Segment(rem, FALSE, FALSE, FALSE)),
          stop |-> TRUE]
    ELSE [remaining_text |-> Drop(rem, m.end),
          segments |-> emit_match(segs, m.pre, m.inner,
                                  br \in {"bold_italic", "bold"},
                                  br \in {"bold_italic", "italic"},
                                  br = "underline"),
          stop |-> FALSE]

\* one iteration of the while loop: the new remaining text and segments,
\* and whether the loop was left by break
seg_step(rem, segs) ==
    seg_apply(rem, segs, seg_branch(rem), seg_match(rem, seg_branch(rem)))

RECURSIVE seg_loop(_, _)

\* after an iteration: break, or the loop on what remains
seg_next(st) ==
    IF st.stop THEN st.segments
    ELSE seg_loop(st.remaining_text, st.segments)

seg_loop(rem, segs) ==
    IF rem = <<>> THEN segs ELSE seg_next(seg_step(rem, segs))

\* return segments if segments else [(text, False, False, False)]
seg_return(t, segs) ==
    IF segs # <<>> THEN segs ELSE <<Segment(t, FALSE, FALSE, FALSE)>>

extract_formatting_segments(t) ==
    IF t = <<>> THEN <<Segment(<<>>, FALSE, FALSE, FALSE)>>
    ELSE seg_return(t, seg_loop(t, <<>>))

(***************************************************************************)
(* Input texts of the formatter: concatenations of plain words, loose      *)
(* markers and complete emphasis spans.                                    *)
(***************************************************************************)
Wrap(open, inner, close) == open \o inner \o close

PlainItems == {<<"a">>, <<" ">>}
LooseItems == {<<"*">>, <<"_">>, <<"*", "*">>, <<"<", "u", ">">>}
SpanDelims ==
    {<<"*">>, <<"_">>, <<"*", "*">>, <<"_", "_">>,
     <<"*", "*", "*">>, <<"_", "_", "_">>}
SpanInner == <<"b">>
SpanItems ==
    {Wrap(d, SpanInner, d) : d \in SpanDelims}
      \cup {Wrap(<<"<", "u", ">">>, SpanInner, <<"<", "/", "u", ">">>)}
Items == PlainItems \cup LooseItems \cup SpanItems

RECURSIVE Flatten(_)
Flatten(ss) == IF ss = <<>> THEN <<>> ELSE Head(ss) \o Flatten(Tail(ss))

SegStart ==
    /\ input_items \in SeqsUpTo(Items, 0, MaxItems)
    /\ text = Flatten(input_items)
    /\ remaining_text = <<>>
    /\ segments = <<>>
    /\ seg_pc = "call"

\* if not text: return [("", False, False, False)]
SegEmpty ==
    /\ seg_pc = "call" /\ text = <<>>
    /\ segments' = <<Segment(<<>>, FALSE, FALSE, FALSE)>>
    /\ seg_pc' = "done"
    /\ UNCHANGED <<text, input_items, remaining_text, lineVars, splitVars,
                   renderVars, genVars, mdVars, cfgVars>>

\* segments = []; remaining_text = text
SegEnter ==
    /\ seg_pc = "call" /\ text # <<>>
    /\ segments' = <<>>
    /\ remaining_text' = text
    /\ seg_pc' = "loop"
    /\ UNCHANGED <<text, input_items, lineVars, splitVars,
                   renderVars, genVars, mdVars, cfgVars>>

\* the effect of one iteration on the state
SegApply(st) ==
    /\ remaining_text' = st.remaining_text
    /\ segments' = st.segments
    /\ seg_pc' = IF st.stop THEN "return" ELSE "loop"

\* lines 89-96
SegBoldItalic ==
    /\ seg_pc = "loop" /\ remaining_text # <<>>
    /\ seg_branch(remaining_text) = "bold_italic"
    /\ SegApply(seg_step(remaining_text, segments))
    /\ UNCHANGED <<text, input_items, lineVars, splitVars,
                   renderVars, genVars, mdVars, cfgVars>>

\* lines 99-106
SegBold ==
    /\ seg_pc = "loop" /\ remaining_text # <<>>
    /\ seg_branch(remaining_text) = "bold"
    /\ SegApply(seg_step(remaining_text, segments))
    /\ UNCHANGED <<text, input_items, lineVars, splitVars,
                   renderVars, genVars, mdVars, cfgVars>>

\* lines 109-119
SegItalic ==
    /\ seg_pc = "loop" /\ remaining_text # <<>>
    /\ seg_branch(remaining_text) = "italic"
    /\ SegApply(seg_step(remaining_text, segments))
    /\ UNCHANGED <<text, input_items, lineVars, splitVars,
                   renderVars, genVars, mdVars, cfgVars>>

\* lines 122-128
SegUnderline ==
    /\ seg_pc = "loop" /\ remaining_text # <<>>
    /\ seg_branch(remaining_text) = "underline"
    /\ SegApply(seg_step(remaining_text, segments))
    /\ UNCHANGED <<text, input_items, lineVars, splitVars,
                   renderVars, genVars, mdVars, cfgVars>>

\* lines 131-132
SegPlain ==
    /\ seg_pc = "loop" /\ remaining_text # <<>>
    /\ seg_branch(remaining_text) = "plain"
    /\ SegApply(seg_step(remaining_text, segments))
    /\ UNCHANGED <<text, input_items, lineVars, splitVars,
                   renderVars, genVars, mdVars, cfgVars>>

\* the while condition fails
SegExhausted ==
    /\ seg_pc = "loop" /\ remaining_text = <<>>
    /\ seg_pc' = "return"
    /\ UNCHANGED <<text, input_items, remaining_text, segments, lineVars, splitVars,
                   renderVars, genVars, mdVars, cfgVars>>

SegReturn ==
    /\ seg_pc = "return"
    /\ segments' = seg_return(text, segments)
    /\ seg_pc' = "done"
    /\ UNCHANGED <<text, input_items, remaining_text, lineVars, splitVars,
                   renderVars, genVars, mdVars, cfgVars>>

(***************************************************************************)
(* PPTXGenerator._parse_slide_content                                      *)
(***************************************************************************)
\* content.split("\n")
RECURSIVE split_lines(_)
split_lines(s) ==
    LET nls == {k \in 1..Len(s) : s[k] = NL}
    IN  IF nls = {} THEN <<s>>
        ELSE LET k == MinOf(nls)
             IN  <<SubSeq(s, 1, k - 1)>> \o split_lines(Drop(s, k))

\* "\n".join(ls)
RECURSIVE join_lines(_)
join_lines(ls) ==
    IF ls = <<>> THEN <<>>
    ELSE IF Len(ls) = 1 THEN ls[1]
    ELSE ls[1] \o <<NL>> \o join_lines(Tail(ls))

H1Prefix == <<"#", " ">>
H2Prefix == <<"#", "#", " ">>
H3Prefix == <<"#", "#", "#", " ">>

\* line_stripped.startswith("# ") and line_stripped.startswith("## ")
is_h1_line(line) == startswith(strip(line), H1Prefix)
is_h2_line(line) == startswith(strip(line), H2Prefix)

\* which branch of the loop body a line takes
split_branch(st, line) ==
    IF is_h1_line(line) /\ ~st.h1_found THEN "first_h1"
    ELSE IF is_h1_line(line) /\ st.h1_found THEN "later_h1"
    ELSE IF is_h2_line(line) /\ ~st.h2_found /\ ~st.h1_found THEN "first_h2"
    ELSE IF is_h2_line(line) /\ (st.h2_found \/ st.h1_found) THEN "later_h2"
    ELSE "other"

\* the first "## " line taken as title whether or not a "# " line was seen
process_line_h2_ignores_h1(st, line) ==
    LET ls == strip(line)
    IN  IF is_h1_line(line) /\ ~st.h1_found
        THEN [st EXCEPT !.title = strip(Drop(ls, 2)), !.h1_found = TRUE,
                        !.is_title_slide = TRUE]
        ELSE IF is_h1_line(line)
        THEN [st EXCEPT !.remaining_lines = Append(@, H3Prefix \o Drop(ls, 2))]
        ELSE IF is_h2_line(line) /\ ~st.h2_found
        THEN [st EXCEPT !.title = strip(Drop(ls, 3)), !.h2_found = TRUE]
        ELSE IF is_h2_line(line)
        THEN [st EXCEPT !.remaining_lines = Append(@, H3Prefix \o Drop(ls, 3))]
        ELSE [st EXCEPT !.remaining_lines = Append(@, line)]

\* other lines appended stripped instead of as given
process_line_appends_stripped(st, line) ==
    LET ls == strip(line)
        br == split_branch(st, line)
    IN  CASE br = "first_h1" ->
               [st EXCEPT !.title = strip(Drop(ls, 2)), !.h1_found = TRUE,
                          !.is_title_slide = TRUE]
          [] br = "later_h1" ->
               [st EXCEPT !.remaining_lines = Append(@, H3Prefix \o Drop(ls, 2))]
          [] br = "first_h2" ->
               [st EXCEPT !.title = strip(Drop(ls, 3)), !.h2_found = TRUE]
          [] br = "later_h2" ->
               [st EXCEPT !.remaining_lines = Append(@, H3Prefix \o Drop(ls, 3))]
          [] OTHER ->
               [st EXCEPT !.remaining_lines = Append(@, ls)]

\* the heading tests made on the line as given, not on the stripped line
process_line_tests_raw_line(st, line) ==
    IF startswith(line, H1Prefix) /\ ~st.h1_found
    THEN [st EXCEPT !.title = strip(Drop(line, 2)), !.h1_found = TRUE,
                    !.is_title_slide = TRUE]
    ELSE IF startswith(line, H1Prefix)
    THEN [st EXCEPT !.remaining_lines = Append(@, H3Prefix \o Drop(line, 2))]
    ELSE IF startswith(line, H2Prefix) /\ ~st.h2_found /\ ~st.h1_found
    THEN [st EXCEPT !.title = strip(Drop(line, 3)), !.h2_found = TRUE]
    ELSE IF startswith(line, H2Prefix)
    THEN [st EXCEPT !.remaining_lines = Append(@, H3Prefix \o Drop(line, 3))]
    ELSE [st EXCEPT !.remaining_lines = Append(@, line)]

\* the body of "for line in lines" on the locals st
process_line(st, line) ==
    LET ls == strip(line)
        br == split_branch(st, line)
    IN  CASE br = "first_h1" ->
               [st EXCEPT !.title = strip(Drop(ls, 2)), !.h1_found = TRUE,
                          !.is_title_slide = TRUE]
          [] br = "later_h1" ->
               [st EXCEPT !.remaining_lines = Append(@, H3Prefix \o Drop(ls, 2))]
          [] br = "first_h2" ->
               [st EXCEPT !.title = strip(Drop(ls, 3)), !.h2_found = TRUE]
          [] br = "later_h2" ->
               [st EXCEPT !.remaining_lines = Append(@, H3Prefix \o Drop(ls, 3))]
          [] OTHER ->
               [st EXCEPT !.remaining_lines = Append(@, line)]

Locals ==
    [title |-> title, remaining_lines |-> remaining_lines,
     is_title_slide |-> is_title_slide, h1_found |-> h1_found,
     h2_found |-> h2_found]

NoSplitResult == [title |-> <<>>, content |-> <<>>, is_title_slide |-> FALSE]

(***************************************************************************)
(* Input contents of the title/body split.                                 *)
(***************************************************************************)
SplitTitles == {<<"a">>, <<"b">>}
SplitLines ==
    {<<>>, <<"a">>, <<" ", "a">>, <<"#", "a">>, <<"#", "\t", "a">>,
     <<" ", "#", " ", "a">>, <<"#", " ">>, <<"#", "#", " ", "\t">>}
      \cup {Repeat("#", k) \o <<" ">> \o t : k \in 1..2, t \in SplitTitles}
      \cup {Repeat("#", k) \o <<" ", "a">> : k \in 3..MaxHashLevel}

SplitIdle ==
    /\ content = <<>> /\ lines = <<>> /\ idx = 0 /\ title = <<>>
    /\ remaining_lines = <<>> /\ is_title_slide = FALSE /\ h1_found = FALSE
    /\ h2_found = FALSE /\ sp_result = NoSplitResult /\ sp_pc = "idle"

SplitStart ==
    /\ content \in {join_lines(ls) : ls \in SeqsUpTo(SplitLines, 1, MaxLines)}
    /\ lines = <<>> /\ idx = 0 /\ title = <<>>
    /\ remaining_lines = <<>> /\ is_title_slide = FALSE /\ h1_found = FALSE
    /\ h2_found = FALSE /\ sp_result = NoSplitResult /\ sp_pc = "call"

\* lines 227-232: the split and the initial locals
SplitEnter ==
    /\ sp_pc = "call"
    /\ lines' = split_lines(content)
    /\ idx' = 1
    /\ title' = <<>>
    /\ remaining_lines' = <<>>
    /\ is_title_slide' = FALSE
    /\ h1_found' = FALSE
    /\ h2_found' = FALSE
    /\ sp_pc' = "loop"
    /\ UNCHANGED <<content, sp_result, lineVars, segVars,
                   renderVars, genVars, mdVars, cfgVars>>

\* the effect of one iteration on the locals
SplitApply(st) ==
    /\ title' = st.title
    /\ remaining_lines' = st.remaining_lines
    /\ is_title_slide' = st.is_title_slide
    /\ h1_found' = st.h1_found
    /\ h2_found' = st.h2_found
    /\ idx' = idx + 1

\* lines 238-242
SplitFirstH1 ==
    /\ sp_pc = "loop" /\ idx <= Len(lines)
    /\ split_branch(Locals, lines[idx]) = "first_h1"
    /\ SplitApply(process_line(Locals, lines[idx]))
    /\ UNCHANGED <<content, lines, sp_result, sp_pc, lineVars, segVars,
                   renderVars, genVars, mdVars, cfgVars>>

\* lines 245-251
SplitLaterH1 ==
    /\ sp_pc = "loop" /\ idx <= Len(lines)
    /\ split_branch(Locals, lines[idx]) = "later_h1"
    /\ SplitApply(process_line(Locals, lines[idx]))
    /\ UNCHANGED <<content, lines, sp_result, sp_pc, lineVars, segVars,
                   renderVars, genVars, mdVars, cfgVars>>

\* lines 254-257
SplitFirstH2 ==
    /\ sp_pc = "loop" /\ idx <= Len(lines)
    /\ split_branch(Locals, lines[idx]) = "first_h2"
    /\ SplitApply(process_line(Locals, lines[idx]))
    /\ UNCHANGED <<content, lines, sp_result, sp_pc, lineVars, segVars,
                   renderVars, genVars, mdVars, cfgVars>>

\* lines 260-266
SplitLaterH2 ==
    /\ sp_pc = "loop" /\ idx <= Len(lines)
    /\ split_branch(Locals, lines[idx]) = "later_h2"
    /\ SplitApply(process_line(Locals, lines[idx]))
    /\ UNCHANGED <<content, lines, sp_result, sp_pc, lineVars, segVars,
                   renderVars, genVars, mdVars, cfgVars>>

\* line 269
SplitOther ==
    /\ sp_pc = "loop" /\ idx <= Len(lines)
    /\ split_branch(Locals, lines[idx]) = "other"
    /\ SplitApply(process_line(Locals, lines[idx]))
    /\ UNCHANGED <<content, lines, sp_result, sp_pc, lineVars, segVars,
                   renderVars, genVars, mdVars, cfgVars>>

\* lines 271-275
SplitReturn ==
    /\ sp_pc = "loop" /\ idx > Len(lines)
    /\ sp_result' = [title |-> title, content |-> join_lines(remaining_lines),
                     is_title_slide |-> is_title_slide]
    /\ sp_pc' = "done"
    /\ UNCHANGED <<content, lines, idx, title, remaining_lines,
                   is_title_slide, h1_found, h2_found, lineVars, segVars,
                   renderVars, genVars, mdVars, cfgVars>>

(***************************************************************************)
(* PPTXGenerator._set_content: the body placeholder's text frame is a      *)
(* sequence of paragraphs, a paragraph a record of its level, its bullet   *)
(* property, its runs and its spacing.                                     *)
(***************************************************************************)
MaxRenderLines == 3

\* p.level = min(indent_level, 8)
MaxLevel == 8
\* run.font.size = Pt(14)
BodyFontSize == 14
\* p.space_after = Pt(6)
SpaceAfter == 6

\* a paragraph of a cleared text frame, and one made by add_paragraph()
EmptyParagraph ==
    [level |-> 0, bullet |-> "inherit", num_type |-> <<>>, start_at |-> <<>>,
     runs |-> <<>>, space_after |-> None]

\* str() of a non-negative integer
RECURSIVE str_of(_)
str_of(n) ==
    LET digit(d) == <<"0", "1", "2", "3", "4", "5", "6", "7", "8", "9">>[d + 1]
    IN  IF n < 10 THEN <<digit(n)>>
        ELSE str_of(n \div 10) \o <<digit(n % 10)>>

\* lines 154-163: one run per segment with text; a run's size is unset
segment_runs(segs) ==
    LET has_text(seg) == seg.text # <<>>
        kept == SelectSeq(segs, has_text)
    IN  [k \in 1..Len(kept) |->
           [text |-> kept[k].text, bold |-> kept[k].bold,
            italic |-> kept[k].italic, underline |-> kept[k].underline,
            size |-> None]]

\* MarkdownParser.apply_formatting_to_paragraph
apply_formatting_to_paragraph(p, t) ==
    IF t = <<>> THEN p
    ELSE [p EXCEPT !.runs = segment_runs(extract_formatting_segments(t))]

\* PPTXGenerator._apply_heading_format: font_sizes.get(heading_level, 16)
\* and bold on every run
apply_heading_format(p, heading_level) ==
    LET font_size ==
          CASE heading_level = 3 -> 20 [] heading_level = 4 -> 18
            [] heading_level = 5 -> 16 [] heading_level = 6 -> 14
            [] OTHER -> 16
    IN  [p EXCEPT !.runs = [k \in 1..Len(p.runs) |->
            [p.runs[k] EXCEPT !.size = font_size, !.bold = TRUE]]]

\* for run in p.runs: if run.font.size is None: run.font.size = Pt(14)
default_run_size(p) ==
    [p EXCEPT !.runs = [k \in 1..Len(p.runs) |->
        IF p.runs[k].size = None
        THEN [p.runs[k] EXCEPT !.size = BodyFontSize] ELSE p.runs[k]]]

\* the level assigned without the cap
list_level_uncapped(indent_level) == indent_level

\* min(indent_level, 8)
list_level(indent_level) ==
    IF indent_level < MaxLevel THEN indent_level ELSE MaxLevel

\* the start value set from 1 on
start_at_from_one(number) == IF number >= 1 THEN str_of(number) ELSE <<>>

\* if number > 1: buAutoNum.set("startAt", str(number))
start_at(number) == IF number > 1 THEN str_of(number) ELSE <<>>

\* only level-1 headings skipped
skips_heading_h1_only(format_info) ==
    format_info.is_heading /\ format_info.heading_level <= 1

\* lines 337-340: H1 and H2 are skipped
skips_heading(format_info) ==
    format_info.is_heading /\ format_info.heading_level <= 2

\* buNone and buChar removed, buAutoNum added unless the paragraph has one
set_buAutoNum(p, number) ==
    IF p.bullet = "buAutoNum" THEN p
    ELSE [p EXCEPT !.bullet = "buAutoNum",
                   !.num_type = <<"arabicPeriod">>,
                   !.start_at = start_at(number)]

\* the branch of the loop body taken for a line, r its parse_line
render_branch(line, r) ==
    IF strip(line) = <<>> THEN "blank"
    ELSE IF r.text = <<>> \/ skips_heading(r.format_info) THEN "skip"
    ELSE IF r.format_info.is_heading THEN "heading"
    ELSE IF r.format_info.is_numbered THEN "numbered"
    ELSE IF r.format_info.is_bullet THEN "bullet"
    ELSE "plain"

\* the statements of lines 350-470 on the paragraph p acquired for a line
\* of branch br: its level (1), its bullet property (2; a buNone element
\* is added unless there is one), its runs (3), the run sizes (4), its
\* spacing (5)
format_step(k, p, r, br) ==
    CASE k = 1 -> IF br \in {"numbered", "bullet"}
                  THEN [p EXCEPT !.level = list_level(r.indent_level)]
                  ELSE [p EXCEPT !.level = 0]
      [] k = 2 -> IF br = "numbered"
                  THEN set_buAutoNum(p, r.format_info.number)
                  ELSE IF br = "bullet" THEN p
                  ELSE [p EXCEPT !.bullet = "buNone"]
      [] k = 3 -> apply_formatting_to_paragraph(p, r.text)
      [] k = 4 -> IF br = "heading"
                  THEN apply_heading_format(p, r.format_info.heading_level)
                  ELSE default_run_size(p)
      [] k = 5 -> [p EXCEPT !.space_after = SpaceAfter]

\* the paragraph once the first n of these statements have run
RECURSIVE paragraph_after(_, _, _, _)
paragraph_after(n, p, r, br) ==
    IF n = 0 THEN p
    ELSE format_step(n, paragraph_after(n - 1, p, r, br), r, br)

\* every paragraph made by add_paragraph(), the cleared frame's own
\* paragraph never used
acquire_paragraph_always_adds(ps, first) == Append(ps, EmptyParagraph)

\* lines 343-347: the frame's paragraphs once p is acquired; p is the last
acquire_paragraph(ps, first) ==
    IF first THEN ps ELSE Append(ps, EmptyParagraph)

\* one iteration of the for loop over the frame state
\* [paragraphs, first_paragraph]
render_line(fr, line) ==
    LET ps == acquire_paragraph(fr.paragraphs, fr.first_paragraph)
    IN  IF render_branch(line, parse_line(line)) \in {"blank", "skip"}
        THEN fr
        ELSE [paragraphs |-> [ps EXCEPT ![Len(ps)] =
                paragraph_after(5, ps[Len(ps)], parse_line(line),
                                render_branch(line, parse_line(line)))],
              first_paragraph |-> FALSE]

RECURSIVE render_lines(_, _)
render_lines(fr, ls) ==
    IF ls = <<>> THEN fr
    ELSE render_lines(render_line(fr, Head(ls)), Tail(ls))

\* _set_content on a frame with paragraphs ps: text_frame.clear() leaves
\* one empty paragraph
set_content(ps, c) ==
    IF c = <<>> THEN ps
    ELSE render_lines([paragraphs |-> <<EmptyParagraph>>,
                       first_paragraph |-> TRUE], split_lines(c)).paragraphs

(***************************************************************************)
(* Input bodies of the renderer: blank lines, headings of level 2 and 3,   *)
(* numbered items, bullets at a shallow and at a deep indentation, plain   *)
(* lines.                                                                  *)
(***************************************************************************)
RenderLines ==
    {<<>>, <<" ">>,
     <<"#", "#", " ", "a">>, <<"#", "#", "#", " ", "a">>,
     <<"1", ".", " ", "a">>, <<"0", ".", " ", "a">>,
     <<"0", "5", ".", " ", "b">>,
     <<" ", " ", " ", "-", " ", "a">>,
     Repeat(" ", 2 * MaxLevel + 3) \o <<"-", " ", "b">>,
     <<"a">>, <<"*", "*", "b", "*", "*", "a">>}

\* the placeholder's frame before the call holds one empty paragraph
RenderStart ==
    /\ sc_content \in
         {join_lines(ls) : ls \in SeqsUpTo(RenderLines, 1, MaxRenderLines)}
    /\ sc_lines = <<>> /\ sc_idx = 0
    /\ paragraphs = <<EmptyParagraph>> /\ first_paragraph = FALSE /\ sc_pc = "call"

\* lines 315-316
ScEmpty ==
    /\ sc_pc = "call" /\ sc_content = <<>>
    /\ sc_pc' = "done"
    /\ UNCHANGED <<sc_content, sc_lines, sc_idx, paragraphs, first_paragraph>>
    /\ UNCHANGED <<lineVars, segVars, splitVars, genVars, mdVars, cfgVars>>

\* lines 318-322
ScEnter ==
    /\ sc_pc = "call" /\ sc_content # <<>>
    /\ paragraphs' = <<EmptyParagraph>>
    /\ sc_lines' = split_lines(sc_content)
    /\ first_paragraph' = TRUE
    /\ sc_idx' = 1
    /\ sc_pc' = "loop"
    /\ UNCHANGED sc_content
    /\ UNCHANGED <<lineVars, segVars, splitVars, genVars, mdVars, cfgVars>>

\* the loop body leaves the frame fr and goes to the next line
ScApply(fr) ==
    /\ paragraphs' = fr.paragraphs
    /\ first_paragraph' = fr.first_paragraph
    /\ sc_idx' = sc_idx + 1
    /\ UNCHANGED <<sc_content, sc_lines, sc_pc>>
    /\ UNCHANGED <<lineVars, segVars, splitVars, genVars, mdVars, cfgVars>>

\* lines 326-327
ScBlank ==
    /\ sc_pc = "loop" /\ sc_idx <= Len(sc_lines)
    /\ render_branch(sc_lines[sc_idx], parse_line(sc_lines[sc_idx])) = "blank"
    /\ ScApply(render_line([paragraphs |-> paragraphs,
                            first_paragraph |-> first_paragraph],
                           sc_lines[sc_idx]))

\* lines 333-340
ScSkip ==
    /\ sc_pc = "loop" /\ sc_idx <= Len(sc_lines)
    /\ render_branch(sc_lines[sc_idx], parse_line(sc_lines[sc_idx])) = "skip"
    /\ ScApply(render_line([paragraphs |-> paragraphs,
                            first_paragraph |-> first_paragraph],
                           sc_lines[sc_idx]))

\* lines 343-378 and 470
ScHeading ==
    /\ sc_pc = "loop" /\ sc_idx <= Len(sc_lines)
    /\ render_branch(sc_lines[sc_idx], parse_line(sc_lines[sc_idx])) = "heading"
    /\ ScApply(render_line([paragraphs |-> paragraphs,
                            first_paragraph |-> first_paragraph],
                           sc_lines[sc_idx]))

\* lines 343-347, 381-423 and 470
ScNumbered ==
    /\ sc_pc = "loop" /\ sc_idx <= Len(sc_lines)
    /\ render_branch(sc_lines[sc_idx], parse_line(sc_lines[sc_idx])) = "numbered"
    /\ ScApply(render_line([paragraphs |-> paragraphs,
                            first_paragraph |-> first_paragraph],
                           sc_lines[sc_idx]))

\* lines 343-347, 426-437 and 470
ScBullet ==
    /\ sc_pc = "loop" /\ sc_idx <= Len(sc_lines)
    /\ render_branch(sc_lines[sc_idx], parse_line(sc_lines[sc_idx])) = "bullet"
    /\ ScApply(render_line([paragraphs |-> paragraphs,
                            first_paragraph |-> first_paragraph],
                           sc_lines[sc_idx]))

\* lines 343-347, 440-468 and 470
ScPlain ==
    /\ sc_pc = "loop" /\ sc_idx <= Len(sc_lines)
    /\ render_branch(sc_lines[sc_idx], parse_line(sc_lines[sc_idx])) = "plain"
    /\ ScApply(render_line([paragraphs |-> paragraphs,
                            first_paragraph |-> first_paragraph],
                           sc_lines[sc_idx]))

\* the for loop is exhausted
ScReturn ==
    /\ sc_pc = "loop" /\ sc_idx > Len(sc_lines)
    /\ sc_pc' = "done"
    /\ UNCHANGED <<sc_content, sc_lines, sc_idx, paragraphs, first_paragraph>>
    /\ UNCHANGED <<lineVars, segVars, splitVars, genVars, mdVars, cfgVars>>

\* line 331 raises: lines 472-475 go on with the next line
ScFaultBeforeParagraph ==
    /\ sc_pc = "loop" /\ sc_idx <= Len(sc_lines)
    /\ render_branch(sc_lines[sc_idx], parse_line(sc_lines[sc_idx])) # "blank"
    /\ ScApply([paragraphs |-> paragraphs,
                first_paragraph |-> first_paragraph])

\* a statement of lines 350-470 raises after lines 343-347 acquired the
\* paragraph, which stays as it was then: lines 472-475 go on with the
\* next line
ScFaultAfterParagraph ==
    /\ sc_pc = "loop" /\ sc_idx <= Len(sc_lines)
    /\ render_branch(sc_lines[sc_idx], parse_line(sc_lines[sc_idx]))
         \notin {"blank", "skip"}
    /\ \E n \in 0..4 :
         LET ps == acquire_paragraph(paragraphs, first_paragraph)
         IN  ScApply([paragraphs |-> [ps EXCEPT ![Len(ps)] =
                        paragraph_after(n, ps[Len(ps)],
                          parse_line(sc_lines[sc_idx]),
                          render_branch(sc_lines[sc_idx],
                                        parse_line(sc_lines[sc_idx])))],
                      first_paragraph |-> FALSE])

(***************************************************************************)
(* generate_pptx_endpoint and PPTXGenerator.create_presentation: the       *)
(* request's slides are sorted, each is split and added to the            *)
(* presentation, the presentation is saved, the endpoint answers.          *)
(***************************************************************************)
MaxSlides == 3

\* _parse_slide_content as a function of the content
parse_slide_content(c) ==
    LET RECURSIVE loop(_, _)
        loop(st, ls) ==
            IF ls = <<>> THEN st
            ELSE loop(process_line(st, Head(ls)), Tail(ls))
        st == loop([title |-> <<>>, remaining_lines |-> <<>>,
                    is_title_slide |-> FALSE, h1_found |-> FALSE,
                    h2_found |-> FALSE], split_lines(c))
    IN  [title |-> st.title, content |-> join_lines(st.remaining_lines),
         is_title_slide |-> st.is_title_slide]

\* the slides taken as they are supplied
slides_as_supplied(ss) == ss

\* sorted(request.slides, key=lambda x: x.order): a stable sort
RECURSIVE sorted_by_order(_)
sorted_by_order(ss) ==
    IF ss = <<>> THEN <<>>
    ELSE LET rest == sorted_by_order(SubSeq(ss, 1, Len(ss) - 1))
             x == ss[Len(ss)]
             k == Cardinality({i \in 1..Len(rest) : rest[i].order <= x.order})
         IN  SubSeq(rest, 1, k) \o <<x>> \o SubSeq(rest, k + 1, Len(rest))

\* the slide of the title layout whatever is_title_slide says
add_slide_title_layout(slide_dict, step) ==
    [layout |-> 0,
     title |-> IF step >= 2 /\ slide_dict.title # <<>>
               THEN [text |-> slide_dict.title, size |-> 32, bold |-> TRUE]
               ELSE [text |-> <<>>, size |-> None, bold |-> FALSE],
     body_set |-> step >= 3 /\ slide_dict.content # <<>>,
     body |-> IF step >= 3
              THEN set_content(<<EmptyParagraph>>, slide_dict.content)
              ELSE <<EmptyParagraph>>]

\* _add_slide, and _set_title: the slide once line 286 (step 1), line 291
\* (step 2) and line 296 (step 3) have run.  Both layouts of the default
\* template have a title and a second placeholder, whose text frame holds
\* one empty paragraph.
add_slide(slide_dict, step) ==
    [layout |-> IF slide_dict.is_title_slide THEN 0 ELSE 1,
     title |-> IF step >= 2 /\ slide_dict.title # <<>>
               THEN [text |-> slide_dict.title, size |-> 32, bold |-> TRUE]
               ELSE [text |-> <<>>, size |-> None, bold |-> FALSE],
     body_set |-> step >= 3 /\ slide_dict.content # <<>>,
     body |-> IF step >= 3
              THEN set_content(<<EmptyParagraph>>, slide_dict.content)
              ELSE <<EmptyParagraph>>]

\* the endpoint answers success whatever create_presentation did
endpoint_response_success(cp) ==
    [status |-> "success", status_code |-> 200, download_url |-> TRUE]

\* lines 313-321 of main.py: the answer to the outcome of
\* create_presentation
endpoint_response(cp) ==
    IF cp.kind = "returned"
    THEN [status |-> "success", status_code |-> 200, download_url |-> TRUE]
    ELSE [status |-> "error", status_code |-> 500, download_url |-> FALSE]

\* a request of up to MaxSlides slides; the id is the position in the
\* request
GenStart ==
    /\ req_slides \in
         UNION {[1..n -> [content : {<<>>, <<"b">>,
                                     <<"#", " ", "a", NL, "b">>,
                                     <<"#", "#", " ", "a">>},
                          order : 0..1]] : n \in 0..MaxSlides}
    /\ slides = <<>> /\ gen_idx = 0 /\ prs_slides = <<>> /\ saved = "no"
    /\ cp_result = [kind |-> "none", error |-> "", at |-> 0]
    /\ response = [status |-> "none", status_code |-> 0,
                   download_url |-> FALSE]
    /\ gen_pc = "request"

\* main.py lines 300-304, and lines 186-188 of create_presentation
GenSort ==
    /\ gen_pc = "request"
    /\ slides' = sorted_by_order(
         [k \in 1..Len(req_slides) |->
            [id |-> k, content |-> req_slides[k].content,
             order |-> req_slides[k].order]])
    /\ gen_idx' = 1
    /\ gen_pc' = "slides"
    /\ UNCHANGED <<req_slides, prs_slides, saved, cp_result, response>>
    /\ UNCHANGED <<lineVars, segVars, splitVars, renderVars, mdVars, cfgVars>>

\* lines 190-205: one iteration of the loop over slides_data
CpAddSlide ==
    /\ gen_pc = "slides" /\ gen_idx <= Len(slides)
    /\ prs_slides' = Append(prs_slides,
         add_slide(parse_slide_content(slides[gen_idx].content), 3))
    /\ gen_idx' = gen_idx + 1
    /\ UNCHANGED <<req_slides, slides, saved, cp_result, response, gen_pc>>
    /\ UNCHANGED <<lineVars, segVars, splitVars, renderVars, mdVars, cfgVars>>

\* an exception in the iteration, before line 286 added the slide (step 0)
\* or after it: lines 298-300 and 212-214 raise it again
CpAddSlideFails ==
    /\ gen_pc = "slides" /\ gen_idx <= Len(slides)
    /\ \E step \in 0..2 :
         prs_slides' =
           IF step = 0 THEN prs_slides
           ELSE Append(prs_slides,
                  add_slide(parse_slide_content(slides[gen_idx].content),
                            step))
    /\ cp_result' = [kind |-> "raised", error |-> "slide", at |-> gen_idx]
    /\ gen_pc' = "respond"
    /\ UNCHANGED <<req_slides, slides, gen_idx, saved, response>>
    /\ UNCHANGED <<lineVars, segVars, splitVars, renderVars, mdVars, cfgVars>>

\* lines 208-210
CpSave ==
    /\ gen_pc = "slides" /\ gen_idx > Len(slides)
    /\ saved' = "yes"
    /\ cp_result' = [kind |-> "returned", error |-> "", at |-> 0]
    /\ gen_pc' = "respond"
    /\ UNCHANGED <<req_slides, slides, gen_idx, prs_slides, response>>
    /\ UNCHANGED <<lineVars, segVars, splitVars, renderVars, mdVars, cfgVars>>

\* prs.save raises, with nothing or with a part of the file written:
\* lines 212-214 raise it again
CpSaveFails ==
    /\ gen_pc = "slides" /\ gen_idx > Len(slides)
    /\ saved' \in {"no", "partial"}
    /\ cp_result' = [kind |-> "raised", error |-> "save", at |-> gen_idx]
    /\ gen_pc' = "respond"
    /\ UNCHANGED <<req_slides, slides, gen_idx, prs_slides, response>>
    /\ UNCHANGED <<lineVars, segVars, splitVars, renderVars, mdVars, cfgVars>>

\* main.py lines 313-318
GenRespondSuccess ==
    /\ gen_pc = "respond" /\ cp_result.kind = "returned"
    /\ response' = endpoint_response(cp_result)
    /\ gen_pc' = "done"
    /\ UNCHANGED <<req_slides, slides, gen_idx, prs_slides, saved, cp_result>>
    /\ UNCHANGED <<lineVars, segVars, splitVars, renderVars, mdVars, cfgVars>>

\* main.py lines 319-321
GenRespondError ==
    /\ gen_pc = "respond" /\ cp_result.kind = "raised"
    /\ response' = endpoint_response(cp_result)
    /\ gen_pc' = "done"
    /\ UNCHANGED <<req_slides, slides, gen_idx, prs_slides, saved, cp_result>>
    /\ UNCHANGED <<lineVars, segVars, splitVars, renderVars, mdVars, cfgVars>>

(***************************************************************************)
(* parse_markdown_to_slides (app/utils/helpers.py)                         *)
(***************************************************************************)
MaxMdLines == 5

\* re.split(r"\n---+\n", s): the matches are taken leftmost and do not
\* overlap; a match is a newline, all the hyphens that follow it, at least
\* three, and the newline after them
re_split(s) ==
    LET RECURSIVE scan(_, _)
        scan(i, start) ==
            IF i > Len(s) THEN <<SubSeq(s, start, Len(s))>>
            ELSE LET h == RunLen(s, i + 1, {"-"})
                 IN  IF /\ s[i] = NL /\ h >= 3
                        /\ i + h + 1 <= Len(s) /\ s[i + h + 1] = NL
                     THEN <<SubSeq(s, start, i - 1)>>
                            \o scan(i + h + 2, i + h + 2)
                     ELSE scan(i + 1, start)
    IN  scan(1, 1)

\* re.search(r"^##\s+(.+)$", c, re.MULTILINE): the first line start with
\* "##", whitespace (newlines too) and at least one more character of a
\* line; group 1 runs to the end of that line.  \s+ is greedy and gives
\* characters back while (.+) has nothing to take.
title_match(c) ==
    LET group_start(p) ==
            LET W == {w \in 1..RunLen(c, p + 2, Whitespace) :
                        p + 2 + w <= Len(c) /\ c[p + 2 + w] # NL}
            IN  IF W = {} THEN 0
                ELSE p + 2 + (CHOOSE w \in W : \A v \in W : v <= w)
        P == {p \in 1..Len(c) :
                /\ p = 1 \/ c[p - 1] = NL
                /\ startswith(Drop(c, p - 1), <<"#", "#">>)
                /\ group_start(p) # 0}
        q == group_start(MinOf(P))
        eol == MinOf({e \in q..(Len(c) + 1) : e = Len(c) + 1 \/ c[e] = NL})
    IN  IF P = {} THEN NoMatch
        ELSE [ok |-> TRUE, text |-> SubSeq(c, q, eol - 1)]

\* lines 21-26: the slide of block i, whose stripped content is c
md_slide(i, c) ==
    [id |-> <<"s", "l", "i", "d", "e", "-">> \o str_of(i),
     content |-> c,
     title |-> IF title_match(c).ok THEN title_match(c).text
               ELSE <<"S", "l", "i", "d", "e", " ">> \o str_of(i + 1),
     order |-> i]

\* documents of up to MaxMdLines lines: blank and text lines, a level-2
\* heading, lines of two, three and four hyphens
MdStart ==
    /\ markdown_text \in
         {join_lines(ls) :
            ls \in SeqsUpTo({<<>>, <<"a">>, <<"b">>, <<"#", "#", " ", "a">>,
                             <<"-", "-">>, <<"-", "-", "-">>,
                             <<"-", "-", "-", "-">>}, 1, MaxMdLines)}
    /\ slide_contents = <<>> /\ md_idx = 0 /\ md_slides = <<>>
    /\ md_pc = "call"

\* lines 12-14
MdSplit ==
    /\ md_pc = "call"
    /\ slide_contents' = re_split(markdown_text)
    /\ md_idx' = 0
    /\ md_slides' = <<>>
    /\ md_pc' = "loop"
    /\ UNCHANGED markdown_text
    /\ UNCHANGED <<lineVars, segVars, splitVars, renderVars, genVars,
                   cfgVars>>

\* lines 16-18: block md_idx of enumerate() is empty once stripped
MdSkipEmpty ==
    /\ md_pc = "loop" /\ md_idx < Len(slide_contents)
    /\ strip(slide_contents[md_idx + 1]) = <<>>
    /\ md_idx' = md_idx + 1
    /\ UNCHANGED <<markdown_text, slide_contents, md_slides, md_pc>>
    /\ UNCHANGED <<lineVars, segVars, splitVars, renderVars, genVars,
                   cfgVars>>

\* lines 16-26
MdAppend ==
    /\ md_pc = "loop" /\ md_idx < Len(slide_contents)
    /\ strip(slide_contents[md_idx + 1]) # <<>>
    /\ md_slides' = Append(md_slides,
         md_slide(md_idx, strip(slide_contents[md_idx + 1])))
    /\ md_idx' = md_idx + 1
    /\ UNCHANGED <<markdown_text, slide_contents, md_pc>>
    /\ UNCHANGED <<lineVars, segVars, splitVars, renderVars, genVars,
                   cfgVars>>

\* line 28
MdReturn ==
    /\ md_pc = "loop" /\ md_idx >= Len(slide_contents)
    /\ md_pc' = "done"
    /\ UNCHANGED <<markdown_text, slide_contents, md_idx, md_slides>>
    /\ UNCHANGED <<lineVars, segVars, splitVars, renderVars, genVars,
                   cfgVars>>

(***************************************************************************)
(* set_config (POST /api/config) of app/main.py with save_env_config of    *)
(* app/config.py.  The handler runs on the event loop: a call is suspended *)
(* only at "await validate_api_settings(...)", where other calls may run;  *)
(* what follows the await runs without interruption.  The .env file is     *)
(* absent, written with a key and a URL, or clobbered (opened for writing  *)
(* and not written to its end).                                            *)
(***************************************************************************)
MaxRequests == 2

\* the keys and URLs that are posted
CfgConfigs ==
    [api_key : {<<>>, <<"k">>, <<"j">>}, api_url : {<<>>, <<"u">>, <<"u", "/">>}]

\* Python's None as the value of a setting
PyNone == <<"None">>

\* api_url.rstrip('/')
RECURSIVE rstrip_slash(_)
rstrip_slash(s) ==
    IF s # <<>> /\ s[Len(s)] = "/" THEN rstrip_slash(SubSeq(s, 1, Len(s) - 1))
    ELSE s

\* translator = None, summarizer = None
NoService == [is_none |-> TRUE, base_url |-> PyNone, api_key |-> PyNone]

\* Translator(api_url, api_key) and Summarizer(api_url, api_key)
Service(api_url, api_key) ==
    [is_none |-> FALSE, base_url |-> rstrip_slash(api_url), api_key |-> api_key]

\* initialize_services: the two services built from the settings when
\* is_configured(), left as they are otherwise
initialize_services(st, old) ==
    IF /\ st.GENAI_API_KEY \notin {PyNone, <<>>}
       /\ strip(st.GENAI_API_KEY) # <<>>
       /\ st.GENAI_API_URL \notin {PyNone, <<>>}
       /\ strip(st.GENAI_API_URL) # <<>>
    THEN Service(st.GENAI_API_URL, st.GENAI_API_KEY)
    ELSE old

\* save_env_config on the file and the settings g: open(..., "w") raises
\* ("open_fails"), f.write or the close raises ("write_fails"), the open of
\* the read-back raises ("read_back_fails"), or nothing raises
save_env_config(outcome, api_key, api_url, g) ==
    CASE outcome = "open_fails" -> [g EXCEPT !.ok = FALSE]
      [] outcome = "write_fails" ->
           [g EXCEPT !.env_file = [state |-> "clobbered", api_key |-> <<>>,
                                   api_url |-> <<>>],
                     !.ok = FALSE]
      [] OTHER ->
           [g EXCEPT !.env_file = [state |-> "written", api_key |-> api_key,
                                   api_url |-> api_url],
                     !.settings = [GENAI_API_KEY |-> api_key,
                                   GENAI_API_URL |-> api_url],
                     !.ok = (outcome # "read_back_fails")]

\* the configuration saved before the result of the validation is looked at
set_config_saves_unvalidated(outcome, api_key, api_url, g) ==
    IF outcome = "invalid"
    THEN [save_env_config("saved", api_key, api_url, g)
            EXCEPT !.status_code = 400]
    ELSE IF ~save_env_config(outcome, api_key, api_url, g).ok
    THEN [save_env_config(outcome, api_key, api_url, g)
            EXCEPT !.status_code = 500]
    ELSE [save_env_config(outcome, api_key, api_url, g)
            EXCEPT !.translator = Service(api_url, api_key),
                   !.summarizer = Service(api_url, api_key),
                   !.status_code = 200]

\* set_config from the return of validate_api_settings on: lines 144-165
set_config(outcome, api_key, api_url, g) ==
    IF outcome = "invalid" THEN [g EXCEPT !.status_code = 400]
    ELSE IF ~save_env_config(outcome, api_key, api_url, g).ok
    THEN [save_env_config(outcome, api_key, api_url, g)
            EXCEPT !.status_code = 500]
    ELSE [save_env_config(outcome, api_key, api_url, g)
            EXCEPT !.translator = Service(api_url, api_key),
                   !.summarizer = Service(api_url, api_key),
                   !.status_code = 200]

\* the state after the startup of the application (load_env_config and
\* initialize_services), without a .env file or with one; no call yet
CfgStart ==
    /\ \E st \in {[GENAI_API_KEY |-> PyNone, GENAI_API_URL |-> PyNone]}
            \cup [GENAI_API_KEY : {<<"k">>},
                  GENAI_API_URL : {<<"u">>, <<"u", "/">>}] :
         /\ settings = st
         /\ env_file =
              IF st.GENAI_API_KEY = PyNone
              THEN [state |-> "absent", api_key |-> <<>>, api_url |-> <<>>]
              ELSE [state |-> "written", api_key |-> st.GENAI_API_KEY,
                    api_url |-> st.GENAI_API_URL]
         /\ translator = initialize_services(st, NoService)
         /\ summarizer = initialize_services(st, NoService)
    /\ cfg_calls =
         [r \in 1..MaxRequests |->
            [config |-> [api_key |-> <<>>, api_url |-> <<>>], pc |-> "idle",
             outcome |-> "none", status_code |-> 0]]

\* a POST /api/config arrives
CfgPost ==
    /\ \E r \in 1..MaxRequests, c \in CfgConfigs :
         /\ cfg_calls[r].pc = "idle"
         /\ cfg_calls' = [cfg_calls EXCEPT ![r].config = c, ![r].pc = "called"]
    /\ UNCHANGED <<env_file, settings, translator, summarizer>>
    /\ UNCHANGED <<lineVars, segVars, splitVars, renderVars, genVars, mdVars>>

\* lines 139-140: an empty key or URL is answered with 400
CfgRejectEmpty ==
    /\ \E r \in 1..MaxRequests :
         /\ cfg_calls[r].pc = "called"
         /\ cfg_calls[r].config.api_key = <<>> \/ cfg_calls[r].config.api_url = <<>>
         /\ cfg_calls' = [cfg_calls EXCEPT ![r].pc = "done",
                                           ![r].outcome = "empty",
                                           ![r].status_code = 400]
    /\ UNCHANGED <<env_file, settings, translator, summarizer>>
    /\ UNCHANGED <<lineVars, segVars, splitVars, renderVars, genVars, mdVars>>

\* line 144: the call is suspended at the await of validate_api_settings
CfgAwaitValidation ==
    /\ \E r \in 1..MaxRequests :
         /\ cfg_calls[r].pc = "called"
         /\ cfg_calls[r].config.api_key # <<>>
         /\ cfg_calls[r].config.api_url # <<>>
         /\ cfg_calls' = [cfg_calls EXCEPT ![r].pc = "validating"]
    /\ UNCHANGED <<env_file, settings, translator, summarizer>>
    /\ UNCHANGED <<lineVars, segVars, splitVars, renderVars, genVars, mdVars>>

\* the call r resumed with the outcome of the validation and of the save
CfgResume(r, outcome) ==
    LET g == set_config(outcome, cfg_calls[r].config.api_key,
                        cfg_calls[r].config.api_url,
                        [env_file |-> env_file, settings |-> settings,
                         translator |-> translator, summarizer |-> summarizer,
                         ok |-> TRUE, status_code |-> 0])
    IN  /\ env_file' = g.env_file
        /\ settings' = g.settings
        /\ translator' = g.translator
        /\ summarizer' = g.summarizer
        /\ cfg_calls' = [cfg_calls EXCEPT ![r].pc = "done",
                                          ![r].outcome = outcome,
                                          ![r].status_code = g.status_code]

\* lines 145-149: validate_api_settings returned False (a status other than
\* 200, or an exception of the request)
CfgInvalid ==
    /\ \E r \in 1..MaxRequests :
         /\ cfg_calls[r].pc = "validating"
         /\ CfgResume(r, "invalid")
    /\ UNCHANGED <<lineVars, segVars, splitVars, renderVars, genVars, mdVars>>

\* lines 152-153: save_env_config returned False
CfgSaveFails ==
    /\ \E r \in 1..MaxRequests,
          outcome \in {"open_fails", "write_fails", "read_back_fails"} :
         /\ cfg_calls[r].pc = "validating"
         /\ CfgResume(r, outcome)
    /\ UNCHANGED <<lineVars, segVars, splitVars, renderVars, genVars, mdVars>>

\* lines 152-166: the configuration saved and the services replaced
CfgSaved ==
    /\ \E r \in 1..MaxRequests :
         /\ cfg_calls[r].pc = "validating"
         /\ CfgResume(r, "saved")
    /\ UNCHANGED <<lineVars, segVars, splitVars, renderVars, genVars, mdVars>>

\* the variables of the operations that are not running
LaterIdle(running) ==
    /\ running = "render" \/
         /\ sc_content = <<>> /\ sc_lines = <<>> /\ sc_idx = 0
         /\ paragraphs = <<>> /\ first_paragraph = FALSE /\ sc_pc = "idle"
    /\ running = "generate" \/
         /\ req_slides = <<>> /\ slides = <<>> /\ gen_idx = 0
         /\ prs_slides = <<>> /\ saved = "no"
         /\ cp_result = [kind |-> "none", error |-> "", at |-> 0]
         /\ response = [status |-> "none", status_code |-> 0,
                        download_url |-> FALSE]
         /\ gen_pc = "idle"
    /\ running = "split" \/
         /\ markdown_text = <<>> /\ slide_contents = <<>> /\ md_idx = 0
         /\ md_slides = <<>> /\ md_pc = "idle"
    /\ running = "config" \/
         /\ env_file = [state |-> "absent", api_key |-> <<>>, api_url |-> <<>>]
         /\ settings = [GENAI_API_KEY |-> PyNone, GENAI_API_URL |-> PyNone]
         /\ translator = NoService /\ summarizer = NoService
         /\ cfg_calls = <<>>

(***************************************************************************)
(* Properties of parse_line (checked under SpecLine).                      *)
(***************************************************************************)
IsSuffix(t, s) == Len(t) <= Len(s) /\ Drop(s, Len(s) - Len(t)) = t

BoolCount(b) == IF b THEN 1 ELSE 0

\* the indent-stripped line has the shape '#{1,6} <text>': h hashes, a
\* whitespace character, and at least one more character
HeadingShape(l) ==
    LET h == RunLen(l, 1, {"#"})
    IN  h \in 1..6 /\ Len(l) > h + 1 /\ l[h + 1] \in Whitespace

\* C9: parse_line gives every line at most one of the kinds heading, bullet,
\* numbered; a line of the shape '#{1,6} <text>' is a heading whose level is
\* its number of '#' (1..6), whatever its text looks like; heading, bullet
\* and numbered results have a non-empty text, the line without its marker.
C9_ExactlyOneKind ==
    pl_pc = "done" =>
      LET f == pl_result.format_info
          l == lstrip(pl_line)
          h == RunLen(l, 1, {"#"})
      IN  /\ BoolCount(f.is_heading) + BoolCount(f.is_bullet)
                + BoolCount(f.is_numbered) <= 1
          /\ HeadingShape(l) =>
               f.is_heading /\ ~f.is_bullet /\ ~f.is_numbered
          /\ f.is_heading => f.heading_level \in 1..6 /\ f.heading_level = h
          /\ (f.is_heading \/ f.is_bullet \/ f.is_numbered) =>
               /\ pl_result.text # <<>>
               /\ IsSuffix(pl_result.text, l)
               /\ Len(pl_result.text) <= Len(l) - 2

\* '## - a' parsed: a level-2 heading whose text looks like a bullet item
C9_Witness ==
    /\ pl_pc = "done"
    /\ pl_result.format_info.is_heading
    /\ pl_result.format_info.heading_level = 2
    /\ pl_result.text = <<"-", " ", "a">>

\* C10 as claimed: the number of a numbered line is a positive integer.
C10_NumberPositive ==
    (pl_pc = "done" /\ pl_result.format_info.is_numbered) =>
      pl_result.format_info.number >= 1

\* C10 as amended: the number of a numbered line is a non-negative integer,
\* and it is 0 exactly when all digits of the marker are '0'.
C10_NumberNonNegative ==
    (pl_pc = "done" /\ pl_result.format_info.is_numbered) =>
      LET l == lstrip(pl_line)
          d == RunLen(l, 1, Digits)
      IN  /\ pl_result.format_info.number >= 0
          /\ pl_result.format_info.number = 0 <=> \A k \in 1..d : l[k] = "0"

\* '00. a' parsed: a numbered line with number 0
C10_Witness ==
    /\ pl_pc = "done"
    /\ pl_result.format_info.is_numbered
    /\ pl_result.format_info.number = 0
    /\ startswith(pl_line, <<"0", "0", ".">>)

(***************************************************************************)
(* Properties of extract_formatting_segments (checked under SpecSeg).      *)
(***************************************************************************)
RECURSIVE ConcatText(_)
ConcatText(segs) ==
    IF segs = <<>> THEN <<>> ELSE Head(segs).text \o ConcatText(Tail(segs))

IsPlain(seg) == ~seg.bold /\ ~seg.italic /\ ~seg.underline
Flags(seg) == <<seg.bold, seg.italic, seg.underline>>

\* a text of plain words and complete spans, spans separated by plain words
Balanced(items) ==
    /\ \A k \in 1..Len(items) : items[k] \in PlainItems \cup SpanItems
    /\ \A k \in 1..(Len(items) - 1) :
         ~(items[k] \in SpanItems /\ items[k + 1] \in SpanItems)

RECURSIVE Stripped(_)
Stripped(items) ==
    IF items = <<>> THEN <<>>
    ELSE (IF Head(items) \in SpanItems THEN SpanInner ELSE Head(items))
           \o Stripped(Tail(items))

\* C5: for a text with balanced emphasis markers, the concatenation of the
\* segment texts is the text with every emphasis delimiter removed.
C5_BalancedConcat ==
    (seg_pc = "done" /\ Balanced(input_items)) =>
      ConcatText(segments) = Stripped(input_items)

\* the complete spans of each kind in a text, as <<kind, start>>
SpansIn(s) ==
    {<<"bold_italic", m.start>> : m \in {x \in {bold_italic_match(s)} : x.ok}}
      \cup {<<"bold", m.start>> : m \in {x \in {bold_match(s)} : x.ok}}
      \cup {<<"italic", m.start>> :
               m \in {x \in {lone_match(s, "*"), lone_match(s, "_")} : x.ok}}
      \cup {<<"underline", m.start>> : m \in {x \in {underline_match(s)} : x.ok}}

KindOf(seg) ==
    CASE seg.bold /\ seg.italic -> "bold_italic"
      [] seg.bold -> "bold"
      [] seg.italic -> "italic"
      [] seg.underline -> "underline"
      [] OTHER -> "plain"

TakenStart(s) ==
    LET br == seg_branch(s)
    IN  CASE br = "bold_italic" -> bold_italic_match(s).start
          [] br = "bold" -> bold_match(s).start
          [] br = "italic" -> italic_match(s).start
          [] br = "underline" -> underline_match(s).start

\* C6: the match an iteration takes is the leftmost emphasis span of the
\* remaining text, so a plain segment emitted before a match contains no
\* complete emphasis span of another kind.
C6_LeftmostSpan ==
    /\ (seg_pc = "loop" /\ SpansIn(remaining_text) # {}) =>
         \A sp \in SpansIn(remaining_text) : TakenStart(remaining_text) <= sp[2]
    /\ \A k \in 1..(Len(segments) - 1) :
         IsPlain(segments[k]) =>
           \A sp \in SpansIn(segments[k].text) : sp[1] = KindOf(segments[k + 1])

\* C7: the result is never empty; an empty text gives one empty plain
\* segment; a text in which no pattern matches gives itself as one plain
\* segment; no segment of a non-empty text is empty.
C7_NeverEmpty ==
    seg_pc = "done" =>
      /\ Len(segments) >= 1
      /\ text = <<>> => segments = <<Segment(<<>>, FALSE, FALSE, FALSE)>>
      /\ SpansIn(text) = {} => segments = <<Segment(text, FALSE, FALSE, FALSE)>>
      /\ text # <<>> => \A k \in 1..Len(segments) : segments[k].text # <<>>

\* 'a**b**a' formatted: a match between a prefix and a fallback segment
C7_Witness ==
    /\ seg_pc = "done"
    /\ Len(segments) = 3
    /\ segments[1] = Segment(<<"a">>, FALSE, FALSE, FALSE)
    /\ segments[2].bold
    /\ segments[3] = Segment(<<"a">>, FALSE, FALSE, FALSE)

\* C8 as claimed: no two adjacent segments carry the same flags.
C8_MaximalRuns ==
    seg_pc = "done" =>
      \A k \in 1..(Len(segments) - 1) :
        Flags(segments[k]) # Flags(segments[k + 1])

\* C8 as amended: no two adjacent segments are both without emphasis
\* (adjacent spans of one kind do give adjacent segments with equal flags).
C8_NoAdjacentPlain ==
    seg_pc = "done" =>
      \A k \in 1..(Len(segments) - 1) :
        ~(IsPlain(segments[k]) /\ IsPlain(segments[k + 1]))

\* '**b**__b__' formatted: two consecutive bold-only segments
C8_Witness ==
    /\ seg_pc = "done"
    /\ text = <<"*", "*", "b", "*", "*", "_", "_", "b", "_", "_">>
    /\ segments = <<Segment(<<"b">>, TRUE, FALSE, FALSE),
                    Segment(<<"b">>, TRUE, FALSE, FALSE)>>

\* the iterations of the while loop run so far: every iteration that takes a
\* match appends one segment with emphasis, and the iteration that breaks
\* leaves the remaining text non-empty
RECURSIVE Emphasised(_)
Emphasised(segs) ==
    IF segs = <<>> THEN 0
    ELSE (IF IsPlain(Head(segs)) THEN 0 ELSE 1) + Emphasised(Tail(segs))

Iterations ==
    IF seg_pc \in {"call", "idle"} THEN 0
    ELSE Emphasised(segments)
           + (IF seg_pc \in {"return", "done"} /\ remaining_text # <<>>
              THEN 1 ELSE 0)

\* C23, one iteration: it either leaves a strictly shorter suffix of the
\* remaining text and continues, or appends the whole remaining text as a
\* plain segment and leaves the loop; each counts as one iteration.
C23_Step ==
    (seg_pc = "loop" /\ remaining_text # <<>>) =>
      /\ Iterations' = Iterations + 1
      /\ \/ /\ seg_pc' = "loop"
            /\ Len(remaining_text') < Len(remaining_text)
            /\ IsSuffix(remaining_text', remaining_text)
         \/ /\ seg_pc' = "return"
            /\ segments' =
                 Append(segments, Segment(remaining_text, FALSE, FALSE, FALSE))

\* C23, the bound: at most as many iterations as the text has characters,
\* and the remaining text is always a suffix of the text.
C23_Bound ==
    seg_pc \in {"loop", "return", "done"} =>
      /\ Iterations <= Len(text)
      /\ text # <<>> => IsSuffix(remaining_text, text)

\* C23: the scanning loop of extract_formatting_segments terminates for
\* every text: each iteration consumes at least one character of the
\* remaining suffix or emits it as a plain segment and stops, and there are
\* at most Len(text) iterations.
C23_LoopTerminates ==
    /\ []C23_Bound
    /\ [][C23_Step]_vars
    /\ (seg_pc = "call") ~> (seg_pc = "done")

\* '*b**b*a' formatted: two iterations with a match, then the fallback
C23_Witness ==
    /\ seg_pc = "done"
    /\ Iterations = 3
    /\ Len(segments) = 3
    /\ remaining_text = <<"a">>

(***************************************************************************)
(* Properties of _parse_slide_content (checked under SpecSplit).           *)
(***************************************************************************)
is_h12_line(line) == is_h1_line(line) \/ is_h2_line(line)
NotH12(line) == ~is_h12_line(line)

FirstH1(ls) ==
    LET S == {i \in 1..Len(ls) : is_h1_line(ls[i])}
    IN  IF S = {} THEN 0 ELSE MinOf(S)

FirstH2(ls) ==
    LET S == {i \in 1..Len(ls) : is_h2_line(ls[i])}
    IN  IF S = {} THEN 0 ELSE MinOf(S)

\* the line the claim elects as title: the first '# ' line, or the first
\* '## ' line when there is no '# ' line; 0 when there is neither
Elected(ls) == IF FirstH1(ls) # 0 THEN FirstH1(ls) ELSE FirstH2(ls)

RECURSIVE IsSubseq(_, _)
IsSubseq(a, b) ==
    IF a = <<>> THEN TRUE
    ELSE IF b = <<>> THEN FALSE
    ELSE IF Head(a) = Head(b) THEN IsSubseq(Tail(a), Tail(b))
    ELSE IsSubseq(a, Tail(b))

C1_Result ==
    sp_pc = "done" =>
      LET ls == split_lines(content)
      IN  IF FirstH1(ls) # 0
          THEN /\ sp_result.title = strip(Drop(strip(ls[FirstH1(ls)]), 2))
               /\ sp_result.is_title_slide
          ELSE IF FirstH2(ls) # 0
          THEN /\ sp_result.title = strip(Drop(strip(ls[FirstH2(ls)]), 3))
               /\ ~sp_result.is_title_slide
          ELSE sp_result.title = <<>> /\ ~sp_result.is_title_slide

C1_Excluded ==
    (sp_pc = "loop" /\ idx <= Len(lines) /\ idx = Elected(lines)) =>
      remaining_lines' = remaining_lines

DemotedLine(line) ==
    H3Prefix \o Drop(strip(line), IF is_h1_line(line) THEN 2 ELSE 3)

\* C2: once an earlier line was a '# ' or '## ' heading (the title is
\* captured), the iteration over a later '# ' or '## ' line leaves the title
\* as it is and appends the line to the body as a '### ' heading.
C2_TitleFrozen ==
    [][(/\ sp_pc = "loop" /\ idx <= Len(lines)
        /\ is_h12_line(lines[idx])
        /\ \E j \in 1..(idx - 1) : is_h12_line(lines[j]))
       => (/\ title' = title
           /\ remaining_lines' = Append(remaining_lines, DemotedLine(lines[idx])))
      ]_vars

\* C3: at most one line contributes to the title and no heading line is
\* dropped: the body has one line per input line, less the title line, and
\* every other '# ' or '## ' line is in it as a '### ' line.
C3_NoHeadingDropped ==
    sp_pc = "done" =>
      LET ls == split_lines(content)
          n12 == Cardinality({i \in 1..Len(ls) : is_h12_line(ls[i])})
          captured == IF n12 > 0 THEN 1 ELSE 0
      IN  /\ Len(remaining_lines) = Len(ls) - captured
          /\ Cardinality({k \in 1..Len(remaining_lines) :
                 startswith(remaining_lines[k], H3Prefix)}) >= n12 - captured

\* C4: the lines that are no '# ' or '## ' heading are in the body as they
\* were given and in their input order.
C4_OtherLinesUnchanged ==
    sp_pc = "done" =>
      /\ IsSubseq(SelectSeq(split_lines(content), NotH12), remaining_lines)
      /\ Len(remaining_lines) <= Len(split_lines(content))
      /\ sp_result.content = join_lines(remaining_lines)

\* an indented plain line kept with its indentation below a captured title
C4_Witness ==
    /\ sp_pc = "done"
    /\ sp_result.title # <<>>
    /\ Len(remaining_lines) >= 2
    /\ remaining_lines[1] = <<" ", "a">>
    /\ remaining_lines[2] = <<"#", "#", "#", " ", "a">>

\* C24, during the loop: once a heading line was taken as the title, the
\* title is not empty.
C24_Loop ==
    sp_pc \in {"loop", "done"} =>
      /\ (h1_found \/ h2_found) => title # <<>>
      /\ is_title_slide => h1_found

\* C24, the result: a title slide has a title, and _add_slide sets it on
\* the slide of the title layout.
C24_Result ==
    (sp_pc = "done" /\ sp_result.is_title_slide) =>
      /\ sp_result.title # <<>>
      /\ add_slide(sp_result, 2).layout = 0
      /\ add_slide(sp_result, 2).title.text = sp_result.title

\* C24: in the result of the title/body split the title is non-empty
\* whenever a heading line was consumed as the title; is_title_slide implies
\* a non-empty title, so _add_slide never leaves the title of a title-layout
\* slide unset.
C24_TitleNonEmpty == C24_Loop /\ C24_Result

\* ' # a' split: an indented heading line taken as the title of a title slide
C24_Witness ==
    /\ sp_pc = "done"
    /\ lines[1] = <<" ", "#", " ", "a">>
    /\ h1_found
    /\ sp_result.is_title_slide
    /\ sp_result.title = <<"a">>

(***************************************************************************)
(* Properties of _set_content (checked under SpecRender and                *)
(* SpecRenderFault).                                                       *)
(***************************************************************************)
\* the paragraphs the loop has acquired: the cleared frame's paragraph
\* counts once first_paragraph is False
EmittedOf(ps, first) == IF first THEN <<>> ELSE ps

Emitted ==
    IF sc_pc \in {"loop", "done"} /\ sc_content # <<>>
    THEN EmittedOf(paragraphs, first_paragraph) ELSE <<>>

LeadingWhitespace(line) == RunLen(line, 1, Whitespace)

\* a step of the loop over the line at sc_idx
LineStep ==
    sc_pc = "loop" /\ sc_idx <= Len(sc_lines) /\ sc_idx' = sc_idx + 1

LastOf(ps) == ps[Len(ps)]

\* t is l without its marker of m characters and the whitespace after it
WithoutMarker(t, l, m) ==
    \E k \in 1..(Len(l) - m) :
        /\ \A j \in (m + 1)..(m + k) : l[j] \in Whitespace
        /\ t = Drop(l, m + k)

ListLineParsed(line) ==
    LET r == parse_line(line)
        w == LeadingWhitespace(line)
        l == Drop(line, w)
    IN  /\ r.indent_level = w \div 2
        /\ r.text # <<>>
        /\ IF r.format_info.is_bullet THEN WithoutMarker(r.text, l, 1)
           ELSE WithoutMarker(r.text, l, RunLen(l, 1, Digits) + 1)

C11_Range ==
    \A k \in 1..Len(paragraphs) : paragraphs[k].level \in 0..8

C11_Step ==
    LineStep =>
      LET line == sc_lines[sc_idx]
          r == parse_line(line)
          w == LeadingWhitespace(line)
          before == EmittedOf(paragraphs, first_paragraph)
          after == EmittedOf(paragraphs', first_paragraph')
      IN  IF r.format_info.is_bullet \/ r.format_info.is_numbered
          THEN /\ ListLineParsed(line)
               /\ Len(after) = Len(before) + 1
               /\ LastOf(after).level =
                    (IF w \div 2 < 8 THEN w \div 2 ELSE 8)
          ELSE Len(after) > Len(before) => LastOf(after).level = 0

\* C11: a bullet or numbered line with w leading whitespace characters is
\* parsed with indent floor(w / 2) and its text without indentation or
\* marker, and its paragraph is emitted at level min(indent, 8); heading and
\* plain paragraphs are at level 0; every paragraph's level is in 0..8.
C11_NestingLevel == []C11_Range /\ [][C11_Step]_vars

C11_Witness ==
    /\ sc_pc = "done"
    /\ \E k \in 1..Len(Emitted) : Emitted[k].level = 8
    /\ \E i \in 1..Len(sc_lines) :
         /\ parse_line(sc_lines[i]).format_info.is_bullet
         /\ LeadingWhitespace(sc_lines[i]) \div 2 > 8
    /\ \E i \in 1..Len(sc_lines) :
         /\ parse_line(sc_lines[i]).format_info.is_bullet
         /\ LeadingWhitespace(sc_lines[i]) = 3

\* a body line classified as a heading of level 1 or 2
IsH12Body(line) ==
    /\ strip(line) # <<>>
    /\ parse_line(line).format_info.is_heading
    /\ parse_line(line).format_info.heading_level \in {1, 2}

NotH12Body(line) == ~IsH12Body(line)

C12_Skip ==
    (LineStep /\ IsH12Body(sc_lines[sc_idx])) =>
      paragraphs' = paragraphs /\ first_paragraph' = first_paragraph

C12_Final ==
    (sc_pc = "done" /\ sc_content # <<>>) =>
      LET fr == render_lines([paragraphs |-> <<EmptyParagraph>>,
                              first_paragraph |-> TRUE],
                             SelectSeq(sc_lines, NotH12Body))
      IN  Emitted = EmittedOf(fr.paragraphs, fr.first_paragraph)

\* C12: the step over a body line classified as a heading of level 1 or 2
\* creates no paragraph and changes none, and the paragraphs emitted for a
\* body are those emitted for the body without these lines.
C12_HeadingsSkipped == []C12_Final /\ [][C12_Skip]_vars

C12_Witness ==
    /\ sc_pc = "done" /\ Emitted # <<>>
    /\ \E i \in 1..Len(sc_lines) : IsH12Body(sc_lines[i])

C13_Step ==
    (LineStep /\ parse_line(sc_lines[sc_idx]).format_info.is_numbered) =>
      LET n == parse_line(sc_lines[sc_idx]).format_info.number
          p == LastOf(paragraphs')
      IN  /\ p.bullet = "buAutoNum"
          /\ p.num_type = <<"arabicPeriod">>
          /\ IF n > 1
             THEN /\ p.start_at # <<>>
                  /\ \A j \in 1..Len(p.start_at) : p.start_at[j] \in Digits
                  /\ int_of(p.start_at) = n
             ELSE p.start_at = <<>>

\* C13: the paragraph emitted for a line classified Numbered(n) is
\* auto-numbered (arabic with period), and its start value is set, to n,
\* exactly when n > 1.
C13_NumberedStart == [][C13_Step]_vars

C13_Witness ==
    /\ sc_pc = "done"
    /\ \E k \in 1..Len(Emitted) : Emitted[k].start_at = <<"5">>
    /\ \E k \in 1..Len(Emitted) :
         Emitted[k].bullet = "buAutoNum" /\ Emitted[k].start_at = <<>>

\* a body line that is to get a paragraph
Qualifies(line) ==
    /\ strip(line) # <<>>
    /\ parse_line(line).text # <<>>
    /\ NotH12Body(line)

RECURSIVE RunText(_)
RunText(runs) ==
    IF runs = <<>> THEN <<>> ELSE Head(runs).text \o RunText(Tail(runs))

\* p is a paragraph for line: its kind, its level, its text and its spacing
Corresponds(p, line) ==
    LET r == parse_line(line)
    IN  /\ p.runs # <<>>
        /\ IsSubseq(RunText(p.runs), r.text)
        /\ r.format_info.is_numbered <=> p.bullet = "buAutoNum"
        /\ r.format_info.is_bullet <=> p.bullet = "inherit"
        /\ p.space_after = SpaceAfter

\* C14: the paragraphs emitted for a body correspond one-to-one and in order
\* to its lines that are non-blank after stripping, have a non-empty
\* classified text and are not headings of level 1 or 2; a body without
\* such a line has no emitted paragraph.
C14_OneToOne ==
    sc_pc \in {"loop", "done"} =>
      LET q == SelectSeq(SubSeq(sc_lines, 1, sc_idx - 1), Qualifies)
      IN  /\ Len(Emitted) = Len(q)
          /\ \A k \in 1..Len(q) : Corresponds(Emitted[k], q[k])

C14_Witness ==
    /\ sc_pc = "done" /\ Len(Emitted) >= 2
    /\ Emitted[1].runs # Emitted[2].runs
    /\ \E i \in 1..Len(sc_lines) : strip(sc_lines[i]) = <<>>

\* C15: whatever lines raised an error, no empty or partially formatted
\* paragraph is left in the frame: every emitted paragraph has its runs and
\* its spacing.
C15_NoPartialParagraph ==
    \A k \in 1..Len(Emitted) :
        Emitted[k].runs # <<>> /\ Emitted[k].space_after = SpaceAfter

(***************************************************************************)
(* The body of the split as the renderer reads it (checked under           *)
(* SpecSplit).                                                             *)
(***************************************************************************)
\* C25: no line of the body returned by the title/body split is classified
\* by parse_line as a heading of level 1 or 2, so the renderer's skip of
\* those headings drops no line of a slide's content.
C25_NoBodyHeadingSkipped ==
    sp_pc = "done" =>
      LET body == split_lines(sp_result.content)
      IN  \A k \in 1..Len(body) :
            ~(/\ IsH12Body(body[k])
              /\ skips_heading(parse_line(body[k]).format_info))

(***************************************************************************)
(* Properties of create_presentation and of the endpoint (checked under    *)
(* SpecGen).                                                               *)
(***************************************************************************)
\* the output slide s is the slide of the input slide in: layout, title and
\* body as the split of its content says
BuiltFrom(s, in) ==
    LET d == parse_slide_content(in.content)
    IN  /\ s.layout = (IF d.is_title_slide THEN 0 ELSE 1)
        /\ s.title.text = d.title
        /\ s.body_set => d.content # <<>>
        /\ ~s.body_set => s.body = <<EmptyParagraph>>

\* the slides of the presentation that went through _add_slide
AddedSlides ==
    IF cp_result.kind = "raised" /\ cp_result.error = "slide"
    THEN SubSeq(prs_slides, 1, cp_result.at - 1) ELSE prs_slides

\* C16: create_presentation makes one output slide per input slide, the i-th
\* from the i-th input slide, with layout 0 iff is_title_slide and layout 1
\* otherwise, and the body placeholder populated only for a non-empty body.
C16_SlidePerInput ==
    gen_pc \in {"slides", "respond", "done"} =>
      /\ Len(AddedSlides) = gen_idx - 1
      /\ \A i \in 1..Len(AddedSlides) : BuiltFrom(AddedSlides[i], slides[i])
      /\ cp_result.kind = "returned" =>
           Len(prs_slides) = Len(slides) /\ Len(slides) = Len(req_slides)

C16_Witness ==
    /\ gen_pc = "done" /\ response.status = "success"
    /\ Len(prs_slides) >= 2
    /\ \E i \in 1..Len(prs_slides) :
         prs_slides[i].layout = 0 /\ prs_slides[i].body_set
    /\ \E i \in 1..Len(prs_slides) :
         prs_slides[i].layout = 1 /\ ~prs_slides[i].body_set

\* the position of the k-th slide of the request among the slides in
\* non-decreasing order, ties in request order
Rank(k) ==
    1 + Cardinality({j \in 1..Len(req_slides) :
          \/ req_slides[j].order < req_slides[k].order
          \/ req_slides[j].order = req_slides[k].order /\ j < k})

\* C17: the slides are rendered in non-decreasing order of their order
\* field whatever the order of the request, slides of equal order in their
\* request order.
C17_SortedStable ==
    gen_pc \in {"slides", "respond", "done"} =>
      /\ Len(slides) = Len(req_slides)
      /\ \A i \in 1..(Len(slides) - 1) : slides[i].order <= slides[i + 1].order
      /\ \A k \in 1..Len(req_slides) :
           /\ slides[Rank(k)].id = k
           /\ slides[Rank(k)].content = req_slides[k].content
           /\ slides[Rank(k)].order = req_slides[k].order
           /\ Rank(k) <= Len(AddedSlides) =>
                BuiltFrom(AddedSlides[Rank(k)], req_slides[k])

C17_Witness ==
    /\ gen_pc = "done" /\ response.status = "success"
    /\ \E i, j \in 1..Len(req_slides) :
         /\ i < j /\ req_slides[i].order > req_slides[j].order
         /\ req_slides[i].content # req_slides[j].content
    /\ \E i, j \in 1..Len(req_slides) :
         /\ i < j /\ req_slides[i].order = req_slides[j].order
         /\ req_slides[i].content # req_slides[j].content

C18_Outcome ==
    /\ cp_result.kind = "returned" =>
         Len(prs_slides) = Len(slides) /\ saved = "yes"
    /\ saved # "no" => gen_idx > Len(slides) /\ Len(prs_slides) = Len(slides)
    /\ (cp_result.kind = "raised" /\ cp_result.error = "slide") =>
         saved = "no" /\ cp_result.at = gen_idx
    /\ gen_pc \in {"respond", "done"} =>
         cp_result.kind \in {"returned", "raised"}
    /\ response.status = "success" => cp_result.kind = "returned"
    /\ (gen_pc = "done" /\ cp_result.kind = "raised") =>
         /\ response.status = "error" /\ response.status_code = 500
         /\ ~response.download_url

\* an iteration that does not add its slide whole, or a save that does not
\* write the deck, raises; after the error nothing is processed
C18_Stops ==
    /\ (gen_pc = "slides" /\ gen_idx <= Len(slides)
          /\ ~(/\ gen_idx' = gen_idx + 1
               /\ prs_slides' = Append(prs_slides, prs_slides'[Len(prs_slides')])
               /\ BuiltFrom(prs_slides'[Len(prs_slides')], slides[gen_idx])))
         => cp_result'.kind = "raised" /\ cp_result'.at = gen_idx
    /\ (gen_pc = "slides" /\ gen_idx > Len(slides) /\ saved' # "yes")
         => cp_result'.kind = "raised"
    /\ cp_result.kind = "raised" =>
         UNCHANGED <<prs_slides, gen_idx, saved, cp_result>>

\* C18: create_presentation returns only after every slide was added and
\* the deck was saved; a failing slide or save raises one error, the first
\* failure, after which no slide is processed and nothing is returned; no
\* deck is written for a failure before the save; the endpoint answers an
\* error, never success with a download URL.
C18_FailureRaised == []C18_Outcome /\ [][C18_Stops]_vars

C18_Witness ==
    /\ gen_pc = "done" /\ response.status = "error"
    /\ cp_result.error = "slide" /\ cp_result.at < Len(slides)
    /\ cp_result.at > 1

(***************************************************************************)
(* Properties of parse_markdown_to_slides (checked under SpecMd).          *)
(***************************************************************************)
\* C19: the blocks that are not empty once trimmed are numbered 0..k-1 in
\* document order: the j-th slide returned has order j and id 'slide-j',
\* counted from 0, also when an empty block precedes it.
C19_SurvivorsNumbered ==
    md_pc = "done" =>
      \A j \in 1..Len(md_slides) :
          /\ md_slides[j].order = j - 1
          /\ md_slides[j].id = <<"s", "l", "i", "d", "e", "-">> \o str_of(j - 1)

HyphenLine(line) == Len(line) >= 3 /\ RunLen(line, 1, {"-"}) = Len(line)

\* C20: every line of three or more hyphens separates slides, wherever it
\* is: no returned content has a line made only of three or more hyphens.
C20_NoHyphenLine ==
    md_pc = "done" =>
      \A j \in 1..Len(md_slides) :
          \A k \in 1..Len(split_lines(md_slides[j].content)) :
              ~HyphenLine(split_lines(md_slides[j].content)[k])

(***************************************************************************)
(* Properties of set_config (checked under SpecCfg).                       *)
(***************************************************************************)
\* the call r returns in this step
Returns(r) == cfg_calls[r].pc # "done" /\ cfg_calls'[r].pc = "done"

Rejected(outcome) == outcome \in {"empty", "invalid"}

\* C21, the return of a rejected call: it answers 400 and leaves the file,
\* the settings and the two services as they were.
C21_Rejection ==
    \A r \in 1..MaxRequests :
      (Returns(r) /\ Rejected(cfg_calls'[r].outcome)) =>
        /\ cfg_calls'[r].status_code = 400
        /\ UNCHANGED <<env_file, settings, translator, summarizer>>

\* C21, the whole call: the file, the settings and the services change only
\* in the return of a call whose credentials passed the validation.
C21_OnlyValidated ==
    <<env_file, settings, translator, summarizer>>'
        # <<env_file, settings, translator, summarizer>> =>
      \E r \in 1..MaxRequests :
        Returns(r) /\ ~Rejected(cfg_calls'[r].outcome)

\* C21, which calls are rejected: a call with an empty key or URL always
\* is, before any validation.
C21_EmptyRejected ==
    \A r \in 1..MaxRequests :
      LET c == cfg_calls[r]
      IN  /\ (c.config.api_key = <<>> \/ c.config.api_url = <<>>) =>
               c.pc \in {"idle", "called", "done"}
          /\ (c.pc = "done"
                /\ (c.config.api_key = <<>> \/ c.config.api_url = <<>>)) =>
               c.outcome = "empty" /\ c.status_code = 400

\* C21: a POST /api/config whose credentials fail the validation, or with an
\* empty key or URL, is answered with 400 and changes nothing: the .env
\* file is not written, the settings keep their values and the translator
\* and the summarizer are the ones of before the call.
C21_RejectedChangesNothing ==
    /\ []C21_EmptyRejected
    /\ [][C21_Rejection /\ C21_OnlyValidated]_vars

\* a configured application that has answered 400 to other credentials
\* found invalid
C21_Witness ==
    \E r \in 1..MaxRequests :
      /\ cfg_calls[r].pc = "done"
      /\ cfg_calls[r].outcome = "invalid"
      /\ cfg_calls[r].status_code = 400
      /\ ~translator.is_none
      /\ settings.GENAI_API_KEY # cfg_calls[r].config.api_key
      /\ env_file.state = "written"

\* C22: whenever the translator and the summarizer are not None, their key
\* and URL (the URL without its trailing slashes, as the services keep it)
\* are those of the settings, whatever set_config calls ran, failed or were
\* interleaved.
C22_ServicesMatchSettings ==
    (~translator.is_none /\ ~summarizer.is_none) =>
      /\ translator.api_key = settings.GENAI_API_KEY
      /\ summarizer.api_key = settings.GENAI_API_KEY
      /\ translator.base_url = rstrip_slash(settings.GENAI_API_URL)
      /\ summarizer.base_url = rstrip_slash(settings.GENAI_API_URL)

(***************************************************************************)
(* Specifications: one per operation, and their union.                     *)
(***************************************************************************)
InitLine == LineStart /\ SegIdle /\ SplitIdle /\ LaterIdle("none")
NextLine == ParseLine
SpecLine == InitLine /\ [][NextLine]_vars

InitSeg == LineIdle /\ SegStart /\ SplitIdle /\ LaterIdle("none")
NextSeg ==
    \/ SegEmpty
    \/ SegEnter
    \/ SegBoldItalic
    \/ SegBold
    \/ SegItalic
    \/ SegUnderline
    \/ SegPlain
    \/ SegExhausted
    \/ SegReturn
SpecSeg == InitSeg /\ [][NextSeg]_vars

\* a step of the call is possible exactly while it has not returned
SegRunning == seg_pc \in {"call", "loop", "return"}
SegRunningIsEnabled == SegRunning <=> ENABLED <<NextSeg>>_vars

\* The call is not suspended (the function is synchronous, it awaits
\* nothing): weak fairness of its steps, WF_vars(NextSeg), written out with
\* ENABLED <<NextSeg>>_vars replaced by its value SegRunning.
SpecSegFair == SpecSeg /\ ([]<>~SegRunning \/ []<><<NextSeg>>_vars)

InitSplit == LineIdle /\ SegIdle /\ SplitStart /\ LaterIdle("none")
NextSplit ==
    \/ SplitEnter
    \/ SplitFirstH1
    \/ SplitLaterH1
    \/ SplitFirstH2
    \/ SplitLaterH2
    \/ SplitOther
    \/ SplitReturn
SpecSplit == InitSplit /\ [][NextSplit]_vars

InitRender ==
    LineIdle /\ SegIdle /\ SplitIdle /\ RenderStart /\ LaterIdle("render")
NextRender ==
    \/ ScEmpty
    \/ ScEnter
    \/ ScBlank
    \/ ScSkip
    \/ ScHeading
    \/ ScNumbered
    \/ ScBullet
    \/ ScPlain
    \/ ScReturn
SpecRender == InitRender /\ [][NextRender]_vars

NextRenderFault ==
    \/ NextRender
    \/ ScFaultBeforeParagraph
    \/ ScFaultAfterParagraph
SpecRenderFault == InitRender /\ [][NextRenderFault]_vars

InitGen ==
    LineIdle /\ SegIdle /\ SplitIdle /\ GenStart /\ LaterIdle("generate")
NextGen ==
    \/ GenSort
    \/ CpAddSlide
    \/ CpAddSlideFails
    \/ CpSave
    \/ CpSaveFails
    \/ GenRespondSuccess
    \/ GenRespondError
SpecGen == InitGen /\ [][NextGen]_vars

InitMd == LineIdle /\ SegIdle /\ SplitIdle /\ MdStart /\ LaterIdle("split")
NextMd ==
    \/ MdSplit
    \/ MdSkipEmpty
    \/ MdAppend
    \/ MdReturn
SpecMd == InitMd /\ [][NextMd]_vars

InitCfg == LineIdle /\ SegIdle /\ SplitIdle /\ CfgStart /\ LaterIdle("config")
NextCfg ==
    \/ CfgPost
    \/ CfgRejectEmpty
    \/ CfgAwaitValidation
    \/ CfgInvalid
    \/ CfgSaveFails
    \/ CfgSaved
SpecCfg == InitCfg /\ [][NextCfg]_vars

Init ==
    \/ InitLine \/ InitSeg \/ InitSplit \/ InitRender \/ InitGen \/ InitMd
    \/ InitCfg
Next ==
    \/ NextLine \/ NextSeg \/ NextSplit \/ NextRenderFault \/ NextGen
    \/ NextMd \/ NextCfg
Spec == Init /\ [][Next]_vars

====
